---------------------------- MODULE Spec2Model ----------------------------
(***************************************************************************)
(* Model of the button-driven recording service of slit_lamp_camera:       *)
(*   recorder.py  RecordingService (run loop, edge handlers, shutdown)     *)
(*   gpio_io.py   LatchingButton (level read, poll, check_initial_state)   *)
(*   camera.py    start_recording / stop_recording / convert_to_mp4        *)
(* The service is one thread of control; the capture processes, the switch,*)
(* the clock and the signals are its environment.                          *)
(***************************************************************************)
EXTENDS Integers, Sequences, FiniteSets, TLC

\* ------------------------------------------------------------------ bounds
\* Number of times the physical switch may be flipped.
MaxToggles == 3
\* Number of distinct clock seconds (timestamps of recording paths).
MaxClock == 2

\* ------------------------------------------------------------------ values
\* Python's None for the process handle and for the current path.
None == 0

\* The output directory handed to the constructor (one resolved target).
Dirs == {"usb"}

VARIABLES
  pc,            \* position of the service's single thread of control
  ret,           \* where the running edge handler returns to
  running,       \* RecordingService._running
  proc,          \* RecordingService._proc: None or a process id
  current_h264,  \* RecordingService._current_h264: None or a path (timestamp)
  output_dir,    \* RecordingService.output_dir
  last_state,    \* LatchingButton._last_state: "none", "on", "off"
  button_open,   \* LatchingButton._button is held (not closed)
  fake_mode,     \* LatchingButton._fake_mode (SLITCAM_FAKE_GPIO=1)
  level,         \* the physical switch: TRUE is ON
  toggles,       \* how often the switch was flipped
  procs,         \* capture processes spawned so far: <<[path, alive]>>
  h264,          \* raw files that exist (by timestamp)
  mp4,           \* converted files that exist (by timestamp)
  now,           \* the wall clock, in seconds
  events,        \* what the current (or last) handler invocation did
  signaled,      \* a shutdown signal was delivered to the handler
  edges_pressed, \* Pressed edges observed (off->on samples, startup ON)
  pressed_calls, \* invocations of _on_button_pressed
  released_calls,\* invocations of _on_button_released
  start_calls,   \* calls of start_recording
  idle_ok,       \* Pressed edges observed while Idle whose start succeeded
  edge_idle,     \* the service was Idle when the handler took the Pressed edge
  init_pressed,  \* the button read ON in check_initial_state
  polls,         \* poll ticks made so far (saturating at 2)
  st_in,         \* storage: what the environment presents to the enumeration
  st_out,        \* storage: what find_usb_mount_targets did and returned
  tools,         \* the binaries that shutil.which resolves on this host
  delete_h264,   \* convert_to_mp4's delete_h264 argument
  stops,         \* per session: calls of stop_recording on its process
  finalizes      \* per session: calls of convert_to_mp4 on its raw file

svc  == <<running, proc, current_h264, output_dir>>
btn  == <<last_state, button_open, fake_mode>>
env  == <<level, toggles, procs, h264, mp4, now>>
cnt  == <<edges_pressed, pressed_calls, released_calls, start_calls, idle_ok,
          edge_idle, init_pressed, polls>>
sto  == <<st_in, st_out>>
host == <<tools, delete_h264>>
hist == <<stops, finalizes>>
vars == <<pc, ret, svc, btn, env, events, signaled, cnt, sto, host, hist>>

\* ------------------------------------------------------------- helpers
Pids == 1..Len(procs)

\* subprocess.Popen.poll() is None: the process is still running.
Alive(p) == p \in Pids /\ procs[p].alive

LiveProcs == {p \in Pids : procs[p].alive}

\* The service holds a session whose capture process is running.
Recording == proc # None /\ Alive(proc)

Last(s) == s[Len(s)]

Inc2(n) == IF n < 2 THEN n + 1 ELSE 2

\* exception classes the collaborators raise
StartErrors == {"RuntimeError", "OSError"}
StopErrors == {"OSError"}
ConvertErrors == {"RuntimeError", "CalledProcessError"}

\* Mutant of ExceptException: the handlers catch RuntimeError only.
ExceptRuntimeErrorOnly == {"RuntimeError"}

\* `except Exception` catches every one of them.
ExceptException == StartErrors \cup StopErrors \cup ConvertErrors


\* ------------------------------------------------------------ the button
Lvl(b) == IF b THEN "on" ELSE "off"

\* Mutant of IsPressed: the fake-hardware toggle is not consulted and the
\* level is read in every mode.
IsPressedReadsLevel == level

\* LatchingButton.is_pressed
IsPressed == IF fake_mode THEN FALSE ELSE (IF button_open THEN level ELSE FALSE)

\* Mutant of PollEdge: level-triggered, a callback on every sample that reads ON.
PollEdgeLevelTriggered(last, cur) ==
  IF last = "none" THEN "none"
  ELSE IF cur = "on" THEN "pressed"
  ELSE IF cur # last THEN "released"
  ELSE "none"

\* Mutant of PollEdge: every change of level is reported as Pressed.
PollEdgeAnyChangePressed(last, cur) ==
  IF last = "none" THEN "none"
  ELSE IF cur # last THEN "pressed"
  ELSE "none"

\* Mutant of PollEdge: a missing baseline is taken for OFF.
PollEdgeNoBaseline(last, cur) ==
  IF cur = "on" /\ last # "on" THEN "pressed"
  ELSE IF cur = "off" /\ last = "on" THEN "released"
  ELSE "none"

\* LatchingButton.poll: the edge that a sample cur yields after baseline last
PollEdge(last, cur) ==
  IF last = "none" THEN "none"
  ELSE IF cur # last
       THEN (IF cur = "on" THEN "pressed" ELSE "released")
       ELSE "none"

\* Mutant of InitialBaseline: the baseline is set to not-pressed whatever was read.
InitialBaselineOff(cur) == "off"

\* LatchingButton.check_initial_state: the baseline it records
InitialBaseline(cur) == cur

\* ----------------------------------------------------- handler guards
\* Mutants of PressedGuardBlocks: the poll() test inverted; the handle test inverted.
PressedGuardPollInverted == proc # None /\ ~Alive(proc)

PressedGuardHandleInverted == proc = None /\ Alive(proc)

\* _on_button_pressed: "Already recording, ignoring press"
PressedGuardBlocks == proc # None /\ Alive(proc)

\* Mutant of ReleasedGuardBlocks: only the handle is tested, not poll().
ReleasedGuardHandleOnly == proc = None

\* _on_button_released: "Not recording, ignoring release"
ReleasedGuardBlocks == proc = None \/ ~Alive(proc)

\* run()'s finally: an active recording is stopped
TeardownStops == proc # None /\ Alive(proc)

\* Mutant of ConvertWanted: the exists() test is dropped.
ConvertWantedNoExists == current_h264 # None

\* _on_button_released: the raw file is converted
ConvertWanted == current_h264 # None /\ current_h264 \in h264

\* ------------------------------------------------- collaborators' outcomes
\* start_recording(path): a process handle or an exception
StartOutcomes == {"ok"} \cup StartErrors

\* stop_recording(proc) on a running process: it returns once the process has
\* exited, or it raises from a signal or wait call with the process in
\* either condition.
StopOutcomes ==
  {[err |-> "ok", alive |-> FALSE]}
    \cup {[err |-> e, alive |-> a] : e \in StopErrors, a \in BOOLEAN}

\* Mutant of ConvertOutcomes: a successful conversion leaves no .mp4 behind.
ConvertOutcomesNoOutput(path) ==
  {[err |-> "ok", mp4 |-> mp4],
   [err |-> "RuntimeError", mp4 |-> mp4],
   [err |-> "CalledProcessError", mp4 |-> mp4]}

\* convert_to_mp4(path): the .mp4 files afterwards, or an exception
ConvertOutcomes(path) ==
  {[err |-> "ok", mp4 |-> mp4 \cup {path}],
   [err |-> "RuntimeError", mp4 |-> mp4],
   [err |-> "CalledProcessError", mp4 |-> mp4],
   [err |-> "CalledProcessError", mp4 |-> mp4 \cup {path}]}

\* ------------------------------------------------------- edge handlers
\* The button invokes on_pressed.
CallPressed(back) ==
  /\ pc' = "pressed_guard"
  /\ ret' = back
  /\ events' = <<>>
  /\ pressed_calls' = pressed_calls + 1
  /\ UNCHANGED <<sto, host, hist, released_calls, edge_idle>>

\* The button (or run()'s teardown) invokes on_released.
CallReleased(back) ==
  /\ pc' = "released_guard"
  /\ ret' = back
  /\ events' = <<>>
  /\ released_calls' = released_calls + 1
  /\ UNCHANGED <<sto, host, hist, pressed_calls, edge_idle>>

PressedGuard ==
  /\ pc = "pressed_guard"
  /\ edge_idle' = ~Recording
  /\ IF PressedGuardBlocks
     THEN /\ events' = Append(events, "ignore_press")
          /\ pc' = ret
     ELSE /\ pc' = "pressed_alloc"
          /\ UNCHANGED events
  /\ UNCHANGED <<sto, host, hist, ret, svc, btn, env, signaled, edges_pressed, pressed_calls,
                 released_calls, start_calls, idle_ok, init_pressed, polls>>

\* Mutant of PressedAlloc: each recording moves the output directory to the
\* chosen target's own directory.
PressedAllocMovesOutput ==
  /\ pc = "pressed_alloc"
  /\ current_h264' = now
  /\ output_dir' = st_out.chosen[1].mountpoint
  /\ pc' = "pressed_start"
  /\ UNCHANGED <<sto, host, hist, ret, running, proc, btn, env, events, signaled, cnt>>

PressedAlloc ==
  /\ pc = "pressed_alloc"
  /\ current_h264' = now
  /\ pc' = "pressed_start"
  /\ UNCHANGED <<sto, host, hist, ret, running, proc, output_dir, btn, env, events, signaled, cnt>>

PressedStart ==
  /\ pc = "pressed_start"
  /\ start_calls' = start_calls + 1
  /\ \E out \in StartOutcomes :
       IF out = "ok"
       THEN /\ procs' = Append(procs, [path |-> current_h264, alive |-> TRUE])
            /\ stops' = Append(stops, 0)
            /\ finalizes' = Append(finalizes, 0)
            /\ proc' = Len(procs) + 1
            /\ idle_ok' = IF edge_idle THEN idle_ok + 1 ELSE idle_ok
            /\ events' = Append(events, "start")
            /\ pc' = ret
            /\ UNCHANGED current_h264
       ELSE IF out \in ExceptException
       THEN /\ events' = events \o <<"start", "start_err">>
            /\ proc' = None
            /\ current_h264' = None
            /\ pc' = ret
            /\ UNCHANGED <<procs, idle_ok, hist>>
       ELSE /\ events' = Append(events, "start")
            /\ pc' = "raised"
            /\ UNCHANGED <<proc, current_h264, procs, idle_ok, hist>>
  /\ UNCHANGED <<sto, host, ret, running, output_dir, btn, level, toggles, h264, mp4, now,
                 signaled, edges_pressed, pressed_calls, released_calls,
                 edge_idle, init_pressed, polls>>

ReleasedGuard ==
  /\ pc = "released_guard"
  /\ IF ReleasedGuardBlocks
     THEN /\ events' = Append(events, "ignore_release")
          /\ pc' = ret
     ELSE /\ pc' = "released_stop"
          /\ UNCHANGED events
  /\ UNCHANGED <<sto, host, hist, ret, svc, btn, env, signaled, cnt>>

\* Mutant of ReleasedStop: the handle is cleared only when stop_recording
\* returned, not in a finally clause.
ReleasedStopKeepsHandleOnError ==
  /\ pc = "released_stop"
  /\ stops' = [stops EXCEPT ![proc] = @ + 1]
  /\ IF ~Alive(proc)
     THEN /\ events' = Append(events, "stop")
          /\ pc' = "released_convert"
          /\ proc' = None
          /\ UNCHANGED procs
     ELSE \E out \in StopOutcomes :
            /\ procs' = [procs EXCEPT ![proc].alive = out.alive]
            /\ IF out.err = "ok"
               THEN /\ events' = Append(events, "stop")
                    /\ pc' = "released_convert"
                    /\ proc' = None
               ELSE /\ events' = events \o <<"stop", "stop_err">>
                    /\ pc' = "released_convert"
                    /\ UNCHANGED proc
  /\ UNCHANGED <<sto, host, finalizes, ret, running, current_h264, output_dir, btn,
                 level, toggles, h264, mp4, now, signaled, cnt>>

ReleasedStop ==
  /\ pc = "released_stop"
  /\ proc' = None
  /\ stops' = [stops EXCEPT ![proc] = @ + 1]
  /\ IF ~Alive(proc)
     THEN /\ events' = Append(events, "stop")
          /\ pc' = "released_convert"
          /\ UNCHANGED procs
     ELSE \E out \in StopOutcomes :
            /\ procs' = [procs EXCEPT ![proc].alive = out.alive]
            /\ IF out.err = "ok"
               THEN /\ events' = Append(events, "stop")
                    /\ pc' = "released_convert"
               ELSE IF out.err \in ExceptException
               THEN /\ events' = events \o <<"stop", "stop_err">>
                    /\ pc' = "released_convert"
               ELSE /\ events' = Append(events, "stop")
                    /\ pc' = "raised"
  /\ UNCHANGED <<sto, host, finalizes, ret, running, current_h264, output_dir, btn,
                 level, toggles, h264, mp4, now, signaled, cnt>>

ReleasedConvert ==
  /\ pc = "released_convert"
  /\ IF ConvertWanted
     THEN \E out \in ConvertOutcomes(current_h264) :
            /\ mp4' = out.mp4
            /\ finalizes' = [finalizes EXCEPT ![Len(finalizes)] = @ + 1]
            /\ IF out.err = "ok"
               THEN /\ events' = Append(events, "finalize")
                    /\ pc' = "released_clear"
               ELSE IF out.err \in ExceptException
               THEN /\ events' = events \o <<"finalize", "finalize_err">>
                    /\ pc' = "released_clear"
               ELSE /\ events' = Append(events, "finalize")
                    /\ pc' = "raised"
     ELSE /\ pc' = "released_clear"
          /\ UNCHANGED <<mp4, events, finalizes>>
  /\ UNCHANGED <<sto, host, stops, ret, svc, btn, level, toggles, procs, h264, now, signaled, cnt>>

\* Mutant of ReleasedClear: the path is left in place when the handler returns.
ReleasedClearKeepsPath ==
  /\ pc = "released_clear"
  /\ pc' = ret
  /\ UNCHANGED <<sto, host, hist, ret, svc, btn, env, events, signaled, cnt>>

ReleasedClear ==
  /\ pc = "released_clear"
  /\ current_h264' = None
  /\ pc' = ret
  /\ UNCHANGED <<sto, host, hist, ret, running, proc, output_dir, btn, env, events, signaled, cnt>>

Handler ==
  \/ PressedGuard
  \/ PressedAlloc
  \/ PressedStart
  \/ ReleasedGuard
  \/ ReleasedStop
  \/ ReleasedConvert
  \/ ReleasedClear

\* ------------------------------------------------------ RecordingService.run
\* signal.signal(SIGTERM/SIGINT, self._handle_shutdown)
Install ==
  /\ pc = "install"
  /\ pc' = "check_initial"
  /\ UNCHANGED <<sto, host, hist, ret, svc, btn, env, events, signaled, cnt>>

\* self._button.check_initial_state(), which calls on_pressed if the button is ON
CheckInitialState ==
  /\ pc = "check_initial"
  /\ LET cur == IsPressed IN
       /\ last_state' = InitialBaseline(Lvl(cur))
       /\ init_pressed' = cur
       /\ IF cur
          THEN /\ CallPressed("set_running")
               /\ edges_pressed' = edges_pressed + 1
          ELSE /\ pc' = "set_running"
               /\ UNCHANGED <<ret, events, edges_pressed, pressed_calls,
                              released_calls, edge_idle>>
  /\ UNCHANGED <<sto, host, hist, svc, button_open, fake_mode, env, signaled, start_calls,
                 idle_ok, polls>>

\* self._running = True
SetRunning ==
  /\ pc = "set_running"
  /\ running' = TRUE
  /\ pc' = "loop_check"
  /\ UNCHANGED <<sto, host, hist, ret, proc, current_h264, output_dir, btn, env, events,
                 signaled, cnt>>

\* while self._running:
LoopCheck ==
  /\ pc = "loop_check"
  /\ pc' = IF running THEN "poll" ELSE "teardown"
  /\ UNCHANGED <<sto, host, hist, ret, svc, btn, env, events, signaled, cnt>>

\* self._button.poll(), which calls on_pressed / on_released on an edge
Poll ==
  /\ pc = "poll"
  /\ LET cur  == Lvl(IsPressed)
         edge == PollEdge(last_state, cur)
     IN
       /\ last_state' = cur
       /\ polls' = Inc2(polls)
       /\ edges_pressed' =
            IF last_state = "off" /\ cur = "on" THEN edges_pressed + 1
            ELSE edges_pressed
       /\ IF edge = "pressed" THEN CallPressed("sleep")
          ELSE IF edge = "released" THEN CallReleased("sleep")
          ELSE /\ pc' = "sleep"
               /\ UNCHANGED <<ret, events, pressed_calls, released_calls,
                              edge_idle>>
  /\ UNCHANGED <<sto, host, hist, svc, button_open, fake_mode, env, signaled, start_calls,
                 idle_ok, init_pressed>>

\* time.sleep(POLL_INTERVAL)
Sleep ==
  /\ pc = "sleep"
  /\ pc' = "loop_check"
  /\ UNCHANGED <<sto, host, hist, ret, svc, btn, env, events, signaled, cnt>>

\* finally: stop any active recording
Teardown ==
  /\ pc = "teardown"
  /\ IF TeardownStops
     THEN CallReleased("close")
     ELSE /\ pc' = "close"
          /\ UNCHANGED <<ret, events, pressed_calls, released_calls, edge_idle>>
  /\ UNCHANGED <<sto, host, hist, svc, btn, env, signaled, edges_pressed, start_calls, idle_ok,
                 init_pressed, polls>>

\* self._button.close(); return 0
Close ==
  /\ pc = "close"
  /\ button_open' = FALSE
  /\ pc' = "done"
  /\ UNCHANGED <<sto, host, hist, ret, svc, last_state, fake_mode, env, events, signaled, cnt>>

\* Mutant of Signal: the signal preempts, control jumps to the teardown.
SignalPreempts ==
  /\ pc \notin {"install", "done", "raised", "harness", "teardown", "close"}
  /\ pc \notin {"cli_choose", "cli_camera", "cli_construct", "exit_1", "exit_2"}
  /\ running' = FALSE
  /\ signaled' = TRUE
  /\ pc' = "teardown"
  /\ UNCHANGED <<sto, host, hist, ret, proc, current_h264, output_dir, btn, env, events, cnt>>

\* _handle_shutdown runs between two steps of the main thread, once run() has
\* installed it.
Signal ==
  /\ pc \notin {"install", "done", "raised", "harness"}
  /\ pc \notin {"cli_choose", "cli_camera", "cli_construct", "exit_1", "exit_2"}
  /\ running' = FALSE
  /\ signaled' = TRUE
  /\ UNCHANGED <<sto, host, hist, pc, ret, proc, current_h264, output_dir, btn, env, events, cnt>>

\* ------------------------------------------------------------ environment
\* The operator flips the latching switch.
Toggle ==
  /\ toggles < MaxToggles
  /\ level' = ~level
  /\ toggles' = toggles + 1
  /\ UNCHANGED <<sto, host, hist, pc, ret, svc, btn, procs, h264, mp4, now, events, signaled, cnt>>

\* A capture process exits on its own.
ProcExit ==
  \E p \in LiveProcs :
    /\ procs' = [procs EXCEPT ![p].alive = FALSE]
    /\ UNCHANGED <<sto, host, hist, pc, ret, svc, btn, level, toggles, h264, mp4, now, events,
                   signaled, cnt>>

\* A running capture process creates its output file.
ProcWrite ==
  \E p \in LiveProcs :
    /\ procs[p].path \notin h264
    /\ h264' = h264 \cup {procs[p].path}
    /\ UNCHANGED <<sto, host, hist, pc, ret, svc, btn, level, toggles, procs, mp4, now, events,
                   signaled, cnt>>

\* A second passes.
Tick ==
  /\ now < MaxClock
  /\ now' = now + 1
  /\ UNCHANGED <<sto, host, hist, pc, ret, svc, btn, level, toggles, procs, h264, mp4, events,
                 signaled, cnt>>

Environment ==
  \/ Toggle
  \/ ProcExit
  \/ ProcWrite
  \/ Tick

\* ------------------------------------------------------- specifications
\* ----------------------------------------------------------- storage.py
\* Text is a sequence of character codes, so that prefix tests, case
\* folding and ordering are computed the way Python computes them on str.
Slash == <<47>>                                            \* "/"
Tilde == <<126>>                                           \* "~"
BootPrefix == <<47, 98, 111, 111, 116>>                    \* "/boot"
TranUsb == <<117, 115, 98>>                                \* "usb"
TranMmc == <<109, 109, 99>>                                \* "mmc"
\* "slitlamp-recordings"
RecordingsDirName ==
  <<115, 108, 105, 116, 108, 97, 109, 112, 45,
    114, 101, 99, 111, 114, 100, 105, 110, 103, 115>>
\* ("SLITLAMP", "SLITLAMP_")
PreferLabelPrefixes ==
  { <<83, 76, 73, 84, 76, 65, 77, 80>>,
    <<83, 76, 73, 84, 76, 65, 77, 80, 95>> }
\* The home directory that expanduser() substitutes: "/h"
Home == <<47, 104>>

\* str.upper() and str.lower() on ASCII text
Upper(s) == [i \in 1..Len(s) |-> IF s[i] \in 97..122 THEN s[i] - 32 ELSE s[i]]
Lower(s) == [i \in 1..Len(s) |-> IF s[i] \in 65..90 THEN s[i] + 32 ELSE s[i]]

\* str.startswith
StartsWith(s, p) == Len(s) >= Len(p) /\ SubSeq(s, 1, Len(p)) = p

\* Python's < on str: code point by code point, a proper prefix is smaller
RECURSIVE StrLess(_, _)
StrLess(a, b) ==
  IF b = <<>> THEN FALSE
  ELSE IF a = <<>> THEN TRUE
  ELSE IF a[1] # b[1] THEN a[1] < b[1]
  ELSE StrLess(Tail(a), Tail(b))

\* Path.__truediv__ on a normalised absolute path
JoinPath(dir, name) == IF dir = Slash THEN dir \o name ELSE dir \o Slash \o name

\* Path.expanduser: a leading "~" component becomes the home directory
ExpandUser(p) ==
  IF p = Tilde \/ StartsWith(p, Tilde \o Slash) THEN Home \o Tail(p) ELSE p

\* Mutant of OverrideConfigured: the override variable is never consulted.
OverrideIgnored(in) == FALSE

\* `if override:` -- unset and the empty string are both "not configured"
OverrideConfigured(in) == in.override # <<>>

\* The one target returned under the override; device and label are None.
OverrideTarget(in) ==
  [mountpoint |-> JoinPath(ExpandUser(in.override), RecordingsDirName),
   device |-> None,
   label |-> <<>>]

\* What running lsblk and parsing its output can raise
LsblkErrors == {"FileNotFoundError", "CalledProcessError", "JSONDecodeError"}
\* What mkdir, open/write and unlink can raise in the probe
ProbeErrors == {"OSError"}

\* Mutant of StorageExcept: only OSError and its subclasses are caught.
StorageExceptOSErrorOnly == {"OSError", "FileNotFoundError"}

\* `except Exception` in _is_writable_dir and around _run_lsblk_json
StorageExcept == LsblkErrors \cup ProbeErrors

\* _flatten_lsblk: every device followed by its children, in listing order
RECURSIVE FlattenLsblk(_)
FlattenLsblk(tree) ==
  IF tree = <<>> THEN <<>>
  ELSE <<Head(tree).node>> \o Head(tree).children \o FlattenLsblk(Tail(tree))

\* `if not mountpoint: continue` -- null and "" are both unmounted
Mounted(n) == n.mountpoint # <<>>

\* rm is True or rm == 1 or str(rm).lower() == "true"
IsRemovable(n) == n.rm \in {"bool_true", "int_1", "str_true"}

\* Mutant of IsUsbish: the memory-card transport is not excluded.
IsUsbishMmcAllowed(n) == Lower(n.tran) = TranUsb \/ IsRemovable(n)

\* is_usbish
IsUsbish(n) ==
  Lower(n.tran) = TranUsb \/ (IsRemovable(n) /\ Lower(n.tran) # TranMmc)

\* Mutant of IsSystemPath: only the filesystem root is excluded.
IsSystemPathRootOnly(mp) == mp = Slash

\* mp == Path("/") or str(mp).startswith("/boot")
IsSystemPath(mp) == mp = Slash \/ StartsWith(mp, BootPrefix)

\* A node that reaches the writability probe
Accepted(n) == Mounted(n) /\ IsUsbish(n) /\ ~IsSystemPath(n.mountpoint)

\* target = mp / recordings_dir_name
TargetDir(n) == JoinPath(n.mountpoint, RecordingsDirName)

\* How the file system answers the probe of a node's target directory:
\* "ok", "mkdir_fail", "write_fail" or "unlink_fail"
ProbeOutcome(in, n) ==
  IF n.mountpoint \in DOMAIN in.probe THEN in.probe[n.mountpoint] ELSE "ok"

\* Mutant of IsWritableDir: the probe's result is ignored.
IsWritableDirAlways(o) == TRUE

\* _is_writable_dir returns True only if mkdir, write and unlink all succeed
IsWritableDir(o) == o = "ok"

\* a probe step failed with an error that `except Exception` does not catch
ProbeRaises(o) == o # "ok" /\ ~(ProbeErrors \subseteq StorageExcept)

\* the probe's footprint: mkdir happened, the marker file was left behind
ProbeMadeDir(o) == o # "mkdir_fail"
ProbeLeftMarker(o) == o = "unlink_fail"

\* UsbTarget(mountpoint=target, device=..., label=...); the device is named
\* by the node's position in the listing
MakeTarget(nodes, i) ==
  [mountpoint |-> TargetDir(nodes[i]), device |-> i, label |-> nodes[i].label]

\* Mutant of ScoreLabel: the label is compared as written.
ScoreLabelRaw(t) == t.label

\* label = (t.label or "").upper()
ScoreLabel(t) == Upper(t.label)

\* score(t) = (preferred, label, str(t.mountpoint))
Score(t) ==
  [preferred |-> IF \E p \in PreferLabelPrefixes : StartsWith(ScoreLabel(t), p)
                 THEN 1 ELSE 0,
   label |-> ScoreLabel(t),
   mountpoint |-> t.mountpoint]

\* Python's < on the score tuples
ScoreLess(a, b) ==
  \/ a.preferred < b.preferred
  \/ /\ a.preferred = b.preferred
     /\ \/ StrLess(a.label, b.label)
        \/ /\ a.label = b.label
           /\ StrLess(a.mountpoint, b.mountpoint)

\* list.sort(key=score, reverse=True): descending and stable
RECURSIVE InsertDescending(_, _)
InsertDescending(t, s) ==
  IF s = <<>> THEN <<t>>
  ELSE IF ScoreLess(Score(Head(s)), Score(t)) THEN <<t>> \o s
  ELSE <<Head(s)>> \o InsertDescending(t, Tail(s))

RECURSIVE SortDescending(_)
SortDescending(s) ==
  IF s = <<>> THEN <<>>
  ELSE InsertDescending(s[Len(s)], SortDescending(SubSeq(s, 1, Len(s) - 1)))

\* The result of a call that has not been made
NoOutput ==
  [raised |-> FALSE, ran_lsblk |-> FALSE, probed |-> <<>>, made |-> {},
   markers |-> {}, targets |-> <<>>, chosen |-> <<>>]

\* find_usb_mount_targets
FindUsbMountTargets(in) ==
  IF OverrideConfigured(in)
  THEN [NoOutput EXCEPT !.targets = <<OverrideTarget(in)>>]
  ELSE IF in.lsblk # "ok"
  THEN [NoOutput EXCEPT !.ran_lsblk = TRUE,
                        !.raised = in.lsblk \notin StorageExcept]
  ELSE
    LET nodes == FlattenLsblk(in.tree)
        idx == [i \in 1..Len(nodes) |-> i]
        probedIdx == SelectSeq(idx, LAMBDA i : Accepted(nodes[i]))
        okIdx == SelectSeq(probedIdx,
                   LAMBDA i : IsWritableDir(ProbeOutcome(in, nodes[i])))
        P == {probedIdx[k] : k \in 1..Len(probedIdx)}
        raises == \E i \in P : ProbeRaises(ProbeOutcome(in, nodes[i]))
    IN [raised |-> raises,
        ran_lsblk |-> TRUE,
        probed |-> [k \in 1..Len(probedIdx) |-> nodes[probedIdx[k]]],
        made |-> {TargetDir(nodes[i]) :
                    i \in {j \in P : ProbeMadeDir(ProbeOutcome(in, nodes[j]))}},
        markers |-> {TargetDir(nodes[i]) :
                    i \in {j \in P : ProbeLeftMarker(ProbeOutcome(in, nodes[j]))}},
        targets |-> IF raises THEN <<>>
                    ELSE SortDescending(
                           [k \in 1..Len(okIdx) |-> MakeTarget(nodes, okIdx[k])]),
        chosen |-> <<>>]

\* Mutant of FirstOrNone: the last target is taken.
LastOrNone(ts) == IF ts = <<>> THEN <<>> ELSE <<ts[Len(ts)]>>

\* `targets[0] if targets else None`: None is the empty sequence
FirstOrNone(ts) == IF ts = <<>> THEN <<>> ELSE <<ts[1]>>

\* choose_usb_target: the first target, or None
ChooseUsbTarget(in) ==
  LET r == FindUsbMountTargets(in)
  IN [r EXCEPT !.chosen = FirstOrNone(r.targets)]

\* Mountpoints of removable media: "/media/a", "/media/b"
MediaA == <<47, 109, 101, 100, 105, 97, 47, 97>>
MediaB == <<47, 109, 101, 100, 105, 97, 47, 98>>
MediaMounts == {MediaA, MediaB}
ProbeOutcomes == {"ok", "mkdir_fail", "write_fail", "unlink_fail"}
ProbeAllOk == [m \in MediaMounts |-> "ok"]

\* No storage call is part of the run: nothing presented, nothing returned.
NoInput == [override |-> <<>>, lsblk |-> "ok", tree |-> <<>>, probe |-> ProbeAllOk]
StorageIdle == st_in = NoInput /\ st_out = NoOutput

\* The binaries the code looks up with shutil.which
Tools == {"rpicam-vid", "libcamera-vid", "ffmpeg"}

\* The deployed host has every tool; the service never asks convert_to_mp4
\* to delete the raw file (delete_h264=False).
HostDefault == tools = Tools /\ delete_h264 = FALSE

\* No session has been started yet.
NoSessions == stops = <<>> /\ finalizes = <<>>

\* RecordingService.__init__, before run() is entered
Constructed ==
  /\ HostDefault
  /\ NoSessions
  /\ ret = "none"
  /\ running = FALSE
  /\ proc = None
  /\ current_h264 = None
  /\ output_dir \in Dirs
  /\ last_state = "none"
  /\ fake_mode \in BOOLEAN
  /\ button_open = ~fake_mode
  /\ level \in BOOLEAN
  /\ toggles = 0
  /\ procs = <<>>
  /\ h264 = {}
  /\ mp4 = {}
  /\ now = 1
  /\ events = <<>>
  /\ signaled = FALSE
  /\ edges_pressed = 0
  /\ pressed_calls = 0
  /\ released_calls = 0
  /\ start_calls = 0
  /\ idle_ok = 0
  /\ edge_idle = TRUE
  /\ init_pressed = FALSE
  /\ polls = 0

Init ==
  /\ pc = "install"
  /\ Constructed
  /\ StorageIdle

Next ==
  \/ Install
  \/ CheckInitialState
  \/ SetRunning
  \/ LoopCheck
  \/ Poll
  \/ Sleep
  \/ Teardown
  \/ Close
  \/ Signal
  \/ Handler
  \/ Environment

\* The service as record-service runs it.
Spec == Init /\ [][Next]_vars

\* The edge handlers fed an arbitrary sequence of Pressed/Released edges.
FeedPressed ==
  /\ pc = "harness"
  /\ toggles < MaxToggles
  /\ toggles' = toggles + 1
  /\ CallPressed("harness")
  /\ edges_pressed' = edges_pressed + 1
  /\ UNCHANGED <<sto, host, hist, svc, btn, level, procs, h264, mp4, now, signaled, start_calls,
                 idle_ok, init_pressed, polls>>

FeedReleased ==
  /\ pc = "harness"
  /\ toggles < MaxToggles
  /\ toggles' = toggles + 1
  /\ CallReleased("harness")
  /\ UNCHANGED <<sto, host, hist, svc, btn, level, procs, h264, mp4, now, signaled,
                 edges_pressed, start_calls, idle_ok, init_pressed, polls>>

InitEdges ==
  /\ pc = "harness"
  /\ Constructed
  /\ StorageIdle

NextEdges ==
  \/ FeedPressed
  \/ FeedReleased
  \/ Handler
  \/ ProcExit
  \/ ProcWrite
  \/ Tick

SpecEdges == InitEdges /\ [][NextEdges]_vars

\* ----------------------------------------------------------------- claims

\* C1: in every reachable state at most one capture process started by the
\* service is alive, whatever edges, failures and signals occurred.
C1_AtMostOneLive == Cardinality(LiveProcs) <= 1

\* C2: when run() has returned, no capture process started by the service is
\* still alive.
C2_NoOrphanAtExit == pc = "done" => LiveProcs = {}

\* C3: once a shutdown signal has been delivered to the installed handler, the
\* loop's next check of the run flag finds it cleared (so the loop stops and
\* run() goes on to teardown).
C3_SignalStopsLoop == (signaled /\ pc = "loop_check") => ~running

\* Positions inside an edge handler.
HandlerPcs ==
  {"pressed_guard", "pressed_alloc", "pressed_start",
   "released_guard", "released_stop", "released_convert", "released_clear"}

\* The collaborator calls among the handler's events, in order.
Calls(es) == SelectSeq(es, LAMBDA e : e \in {"start", "stop", "finalize"})

\* The handler's events hold an error report.
Failed == \E i \in 1..Len(events) : events[i] \in {"start_err", "stop_err", "finalize_err"}

\* A Released edge that found the service Recording has been handled to the end.
ReleasedDone == pc \notin HandlerPcs /\ events # <<>> /\ events[1] = "stop"

\* C4 as stated: a Released edge while Recording always calls stop and then
\* finalize, and leaves the session cleared.
C4_AlwaysStopThenFinalize ==
  ReleasedDone =>
    /\ Calls(events) = <<"stop", "finalize">>
    /\ proc = None
    /\ current_h264 = None

\* C4 amended: a Released edge while Recording calls stop and then, exactly when
\* the session's raw file exists, finalize; afterwards handle and path are none
\* whether or not stop or finalize raised.
C4_StopThenFinalizeIfRawExists ==
  /\ [](ReleasedDone =>
          /\ Calls(events) \in {<<"stop">>, <<"stop", "finalize">>}
          /\ proc = None
          /\ current_h264 = None)
  /\ [][(pc = "released_convert" /\ pc' # pc) =>
          /\ Calls(events) = <<"stop">>
          /\ (Calls(events') = <<"stop", "finalize">>) <=> (current_h264 \in h264)]_vars

\* C4 witness: stop and finalize both raised and the session is cleared.
C4_Witness ==
  /\ pc = "sleep"
  /\ events = <<"stop", "stop_err", "finalize", "finalize_err">>
  /\ proc = None
  /\ current_h264 = None

\* C5: the number of sessions started equals the number of Pressed edges that
\* were observed while Idle and whose start succeeded.
C5_SessionsEqualIdlePresses == Len(procs) = idle_ok

\* C5 witness: three Pressed edges, one failed start, one started session, one
\* ignored press.
C5_Witness ==
  /\ pc = "harness"
  /\ pressed_calls = 3
  /\ start_calls = 2
  /\ Len(procs) = 1
  /\ idle_ok = 1

\* C6: a Pressed edge while Recording is a no-op: start is not called, no
\* process is spawned, handle and path are unchanged.
C6_PressedWhileRecordingNoOp ==
  [][(pc = "pressed_guard" /\ pc' # pc /\ Recording) =>
       /\ pc' = ret
       /\ events' = <<"ignore_press">>
       /\ UNCHANGED <<proc, current_h264, procs, start_calls>>]_vars

\* C6 witness: two Pressed edges in a row, the second ignored, one live process.
C6_Witness ==
  /\ pc = "harness"
  /\ released_calls = 0
  /\ pressed_calls = 2
  /\ events = <<"ignore_press">>
  /\ Recording
  /\ Cardinality(LiveProcs) = 1

\* C7: a Released edge while Idle is a no-op: neither stop nor finalize is
\* called, and handle, path, output directory and run flag are unchanged.
C7_ReleasedWhileIdleNoOp ==
  [][(pc = "released_guard" /\ pc' # pc /\ ~Recording) =>
       /\ pc' = ret
       /\ events' = <<"ignore_release">>
       /\ UNCHANGED <<proc, current_h264, output_dir, running, procs, mp4>>]_vars

\* C7 witness: a Released edge was polled and ignored.
C7_Witness ==
  /\ pc = "sleep"
  /\ last_state = "off"
  /\ events = <<"ignore_release">>

\* C8: after a failed start the handle and the path are none and the error is
\* reported; start is never called more often than Pressed edges were observed.
C8_StartFailureStaysIdleNoRetry ==
  /\ (events # <<>> /\ Last(events) = "start_err") =>
       /\ proc = None
       /\ current_h264 = None
       /\ events = <<"start", "start_err">>
  /\ start_calls <= edges_pressed

\* C8 witness: the start failed, the switch stayed ON over two more polls, and
\* start was called once.
C8_Witness ==
  /\ pc = "sleep"
  /\ events = <<"start", "start_err">>
  /\ polls = 2
  /\ last_state = "on"
  /\ start_calls = 1
  /\ proc = None

\* C9: no failure of start, stop or finalize escapes an edge handler; once the
\* handler has returned after a failure the session is cleared; and a Pressed
\* edge on a cleared session goes on to start.
C9_FailuresNeverEscape ==
  /\ [](pc # "raised")
  /\ []((pc \notin HandlerPcs /\ Failed) => (proc = None /\ current_h264 = None))
  /\ [][(pc = "pressed_guard" /\ pc' # pc /\ proc = None) =>
          pc' = "pressed_alloc"]_vars

\* C9 witness: a stop failed, polling went on, and the next Pressed edge
\* started a new session.
C9_Witness ==
  /\ pc = "sleep"
  /\ running
  /\ Len(procs) = 2
  /\ procs[1].alive
  /\ proc = 2
  /\ events = <<"start">>

\* run() has left its loop and is in (or past) the teardown's forced stop.
TearingDown == ret = "close" \/ pc \in {"teardown", "close", "done"}

\* C10: with the button ON at startup there is exactly one Pressed transition
\* and no Released transition before the first poll tick, and the first poll
\* tick with the button still ON dispatches no handler.
C10_InitialPressOnce ==
  /\ []((init_pressed /\ polls = 0 /\ ~TearingDown) =>
          (pressed_calls = 1 /\ released_calls = 0))
  /\ [][(pc = "poll" /\ pc' # pc /\ init_pressed /\ polls = 0 /\ IsPressed) =>
          /\ pc' = "sleep"
          /\ UNCHANGED <<pressed_calls, released_calls>>]_vars

\* C10 witness: started ON, recording, first poll made with the button ON.
C10_Witness ==
  /\ pc = "sleep"
  /\ init_pressed
  /\ polls = 1
  /\ last_state = "on"
  /\ pressed_calls = 1
  /\ released_calls = 0
  /\ Recording

\* C11: when run() has returned the button is released and no session is
\* pending: the process handle and the current path are both none.
C11_NoSessionAtExit ==
  pc = "done" => (~button_open /\ proc = None /\ current_h264 = None)

\* --------------------------------------------------- camera.stop_recording
\* The signals among the events of a stop, in the order they were sent.
Signals(es) == SelectSeq(es, LAMBDA e : e \in {"SIGINT", "SIGTERM", "SIGKILL"})

\* Mutant of AlreadyStopped: only the handle is tested, not poll().
AlreadyStoppedHandleOnly == proc = None

\* stop_recording: `if proc is None or proc.poll() is not None: return`
AlreadyStopped == proc = None \/ ~Alive(proc)

\* Whether the process can still be running when a wait ends.
\* proc.wait(timeout=timeout): it exited, or TimeoutExpired with it running.
TimedWait == {TRUE, FALSE}

\* Mutant of UnconditionalWait: the last wait is given the timeout as well.
UnconditionalWaitTimed == {TRUE, FALSE}

\* proc.wait(): returns only when the process has exited.
UnconditionalWait == {FALSE}

\* Mutant of AfterWait: the next tier's signal is sent whatever the wait found.
AfterWaitAlwaysEscalates(stillAlive, nextTier) == nextTier

\* try: proc.wait(...) except TimeoutExpired: the next tier; otherwise return
AfterWait(stillAlive, nextTier) == IF stillAlive THEN nextTier ELSE "stop_return"

\* proc.send_signal / terminate / kill: the call returns, or raises OSError
\* out of stop_recording.
Send(sig, from, to) ==
  /\ pc = from
  /\ \/ /\ events' = Append(events, sig)
        /\ pc' = to
     \/ /\ events' = Append(events, "OSError")
        /\ pc' = "stop_raised"
  /\ UNCHANGED <<sto, host, hist, ret, svc, btn, env, signaled, cnt>>

\* proc.wait: the process, if it still runs, exits during the wait or outlasts it
Wait(from, outcomes, nextTier) ==
  /\ pc = from
  /\ \E stillAlive \in (IF Alive(proc) THEN outcomes ELSE {FALSE}) :
       /\ procs' = [procs EXCEPT ![proc].alive = stillAlive]
       /\ events' = Append(events, IF stillAlive THEN "timeout" ELSE "exited")
       /\ pc' = AfterWait(stillAlive, nextTier)
  /\ UNCHANGED <<sto, host, hist, ret, svc, btn, level, toggles, h264, mp4, now, signaled, cnt>>

StopEntry ==
  /\ pc = "stop_entry"
  /\ pc' = IF AlreadyStopped THEN "stop_return" ELSE "stop_sigint"
  /\ UNCHANGED <<sto, host, hist, ret, svc, btn, env, events, signaled, cnt>>

StopInterrupt == Send("SIGINT", "stop_sigint", "stop_wait1")

StopWait1 == Wait("stop_wait1", TimedWait, "stop_sigterm")

StopTerminate == Send("SIGTERM", "stop_sigterm", "stop_wait2")

StopWait2 == Wait("stop_wait2", TimedWait, "stop_sigkill")

StopKill == Send("SIGKILL", "stop_sigkill", "stop_wait3")

StopWait3 == Wait("stop_wait3", UnconditionalWait, "stop_return")

\* stop_recording is called on no handle, on an exited process or on a
\* running one (with or without its output file written yet).
InitStop ==
  /\ pc = "stop_entry"
  /\ stops = <<0>>
  /\ finalizes = <<0>>
  /\ ret = "none"
  /\ running \in BOOLEAN
  /\ output_dir \in Dirs
  /\ last_state = "none"
  /\ fake_mode = FALSE
  /\ button_open = TRUE
  /\ level \in BOOLEAN
  /\ toggles = 0
  /\ now \in 1..MaxClock
  /\ \/ /\ proc = None
        /\ current_h264 = None
        /\ procs = <<>>
        /\ h264 = {}
     \/ /\ proc = 1
        /\ current_h264 \in 1..now
        /\ \E a \in BOOLEAN : procs = <<[path |-> current_h264, alive |-> a]>>
        /\ h264 \in {{}, {current_h264}}
  /\ mp4 = {}
  /\ events = <<>>
  /\ signaled = FALSE
  /\ edges_pressed = 0
  /\ pressed_calls = 0
  /\ released_calls = 0
  /\ start_calls = 0
  /\ idle_ok = 0
  /\ edge_idle = TRUE
  /\ init_pressed = FALSE
  /\ polls = 0
  /\ StorageIdle
  /\ HostDefault

NextStop ==
  \/ StopEntry
  \/ StopInterrupt
  \/ StopWait1
  \/ StopTerminate
  \/ StopWait2
  \/ StopKill
  \/ StopWait3
  \/ ProcExit
  \/ ProcWrite

\* One call of stop_recording, with the capture process as its environment.
SpecStop == InitStop /\ [][NextStop]_vars

\* C12: stop sends interrupt, terminate, kill in that order; terminate and kill
\* are sent only right after a wait that timed out with the process running; a
\* wait that finds the process exited ends the call with no further signal.
C12_ThreeTierEscalation ==
  /\ [](Signals(events) \in
          {<<>>, <<"SIGINT">>, <<"SIGINT", "SIGTERM">>,
           <<"SIGINT", "SIGTERM", "SIGKILL">>})
  /\ [](\A i \in 1..Len(events) :
          events[i] \in {"SIGTERM", "SIGKILL"} =>
            (i > 1 /\ events[i - 1] = "timeout"))
  /\ [][(pc \in {"stop_wait1", "stop_wait2"} /\ pc' # pc) =>
          IF procs'[proc].alive
          THEN /\ pc' = (IF pc = "stop_wait1" THEN "stop_sigterm" ELSE "stop_sigkill")
               /\ events' = Append(events, "timeout")
          ELSE /\ pc' = "stop_return"
               /\ Signals(events') = Signals(events)]_vars

\* C12 witness: the process outlasted the interrupt tier and exited within the
\* terminate tier; kill was never sent.
C12_Witness ==
  /\ pc = "stop_return"
  /\ events = <<"SIGINT", "timeout", "SIGTERM", "exited">>
  /\ ~Alive(proc)

\* C13: whenever stop has returned normally, the capture process has exited.
C13_ReturnedMeansExited == pc = "stop_return" => ~Recording

\* C13 witness: stop returned after all three tiers.
C13_Witness ==
  /\ pc = "stop_return"
  /\ events = <<"SIGINT", "timeout", "SIGTERM", "timeout", "SIGKILL", "exited">>
  /\ proc # None
  /\ ~Alive(proc)

\* C14: stop on no handle or on an exited process returns at once: no signal is
\* sent, no wait is made.
C14_StopOnExitedNoOp ==
  /\ [][(pc = "stop_entry" /\ pc' # pc /\ ~Recording) =>
          (pc' = "stop_return" /\ UNCHANGED <<events, procs>>)]_vars
  /\ []((pc = "stop_return" /\ Signals(events) = <<>>) => events = <<>>)

\* C14 witness: stop was called on a handle whose process had exited.
C14_Witness ==
  /\ pc = "stop_return"
  /\ proc # None
  /\ ~Alive(proc)
  /\ events = <<>>

\* ------------------------------------------- storage: the calls checked
\* Largest number of block-device nodes in a listing.
MaxNodes == 2
\* Largest number of nodes in a listing of labelled USB media.
MaxSortNodes == 3

SeqsUpTo(S, n) == UNION {[1..k -> S] : k \in 0..n}

\* One entry of the lsblk listing (the fields the code reads, and hotplug).
Node(mp, tran, rm, hp, label) ==
  [mountpoint |-> mp, tran |-> tran, rm |-> rm, hotplug |-> hp, label |-> label]

\* "/boot/firmware", "USB", "sata"
BootFirmware == BootPrefix \o <<47, 102, 105, 114, 109, 119, 97, 114, 101>>
TranUsbUpper == <<85, 83, 66>>
TranSata == <<115, 97, 116, 97>>
\* "OTHER", "SLITLAMP_A", "SLITLAMP_B", "slitlamp_a"
LabelOther == <<79, 84, 72, 69, 82>>
LabelA == <<83, 76, 73, 84, 76, 65, 77, 80, 95, 65>>
LabelB == <<83, 76, 73, 84, 76, 65, 77, 80, 95, 66>>
LabelLowerA == <<115, 108, 105, 116, 108, 97, 109, 112, 95, 97>>
\* "/t", "~/t"
OverrideAbs == <<47, 116>>
OverrideHome == <<126, 47, 116>>

\* Nodes that exercise the filter: unmounted, system and media mountpoints
\* under every transport and removable flag.
FilterPool ==
  {Node(mp, t, rm, FALSE, <<>>) :
     mp \in {<<>>, Slash, BootFirmware, MediaA},
     t \in {TranUsb, TranMmc, <<>>},
     rm \in {"bool_true", "bool_false"}}
  \cup {Node(MediaA, TranUsbUpper, "bool_false", TRUE, <<>>),
        Node(MediaA, TranSata, "int_1", TRUE, <<>>),
        Node(MediaA, TranSata, "int_0", TRUE, <<>>),
        Node(MediaA, <<>>, "str_true", FALSE, <<>>),
        Node(MediaA, <<>>, "null", TRUE, <<>>),
        Node(MediaA, TranMmc, "int_1", TRUE, <<>>),
        Node(BootPrefix, TranUsb, "bool_true", TRUE, <<>>),
        Node(Slash, TranUsb, "bool_true", TRUE, <<>>)}

\* Labelled USB media, all accepted by the filter.
SortPool ==
  {Node(mp, TranUsb, "bool_true", TRUE, l) :
     mp \in MediaMounts,
     l \in {<<>>, LabelOther, LabelA, LabelB, LabelLowerA}}

\* Unlabelled USB media whose probe may fail.
ProbePool == {Node(mp, TranUsb, "bool_true", TRUE, <<>>) : mp \in MediaMounts}

\* lsblk's JSON tree: every node its own device, or the first node a device
\* and the others its partitions.
FlatTree(ns) == [i \in 1..Len(ns) |-> [node |-> ns[i], children |-> <<>>]]
NestedTree(ns) ==
  IF ns = <<>> THEN <<>> ELSE <<[node |-> Head(ns), children |-> Tail(ns)]>>
Trees(ns) == {FlatTree(ns), NestedTree(ns)}

\* What the environment presents to one call.
Presented(o, l, t, pr) == [override |-> o, lsblk |-> l, tree |-> t, probe |-> pr]

InitStorage ==
  /\ pc = "storage"
  /\ Constructed
  /\ fake_mode = FALSE
  /\ level = FALSE
  /\ st_out = NoOutput
  /\ \/ \E ns \in SeqsUpTo(FilterPool, MaxNodes) : \E t \in Trees(ns) :
          st_in = Presented(<<>>, "ok", t, ProbeAllOk)
     \/ \E ns \in SeqsUpTo(SortPool, MaxSortNodes) :
          st_in = Presented(<<>>, "ok", FlatTree(ns), ProbeAllOk)
     \/ \E o \in {<<>>, OverrideAbs, OverrideHome} :
        \E l \in {"ok"} \cup LsblkErrors :
        \E ns \in SeqsUpTo(ProbePool, MaxNodes) :
        \E pr \in [MediaMounts -> ProbeOutcomes] :
          st_in = Presented(o, l, FlatTree(ns), pr)

\* a call of find_usb_mount_targets()
FindTargets ==
  /\ pc = "storage"
  /\ st_out' = FindUsbMountTargets(st_in)
  /\ pc' = IF st_out'.raised THEN "find_raised" ELSE "found"
  /\ UNCHANGED <<st_in, host, hist, ret, svc, btn, env, events, signaled, cnt>>

\* a call of choose_usb_target()
ChooseTarget ==
  /\ pc = "storage"
  /\ st_out' = ChooseUsbTarget(st_in)
  /\ pc' = IF st_out'.raised THEN "choose_raised" ELSE "chosen"
  /\ UNCHANGED <<st_in, host, hist, ret, svc, btn, env, events, signaled, cnt>>

NextStorage ==
  \/ FindTargets
  \/ ChooseTarget

SpecStorage == InitStorage /\ [][NextStorage]_vars

\* ------------------------------------------------- storage: the claims
StorageCalled == pc \in {"found", "chosen", "find_raised", "choose_raised"}
Range(f) == {f[i] : i \in DOMAIN f}
\* every node of the listing, device or partition
ListedNodes ==
  UNION {{st_in.tree[i].node} \cup Range(st_in.tree[i].children) :
           i \in DOMAIN st_in.tree}
OnSystemMount(n) == n.mountpoint = Slash \/ StartsWith(n.mountpoint, BootPrefix)
DirOn(mp) == mp \o Slash \o RecordingsDirName
TargetDirs == {st_out.targets[k].mountpoint : k \in DOMAIN st_out.targets}

\* C15: with no override, a node mounted at / or at a path beginning with
\* /boot is never probed (no directory, no marker file on it) and is never
\* among the returned targets, whatever its transport and flags.
C15_SystemMountsExcluded ==
  (StorageCalled /\ st_in.override = <<>>) =>
    \A n \in ListedNodes :
      OnSystemMount(n) =>
        /\ n \notin Range(st_out.probed)
        /\ \A d \in st_out.made \cup st_out.markers \cup TargetDirs :
             /\ ~StartsWith(d, BootPrefix)
             /\ d # Slash \o RecordingsDirName

\* C15 witness: lsblk listed a USB, removable, hotplug node mounted at /boot
\* and a USB, removable node mounted at /.
C15_Witness ==
  /\ pc = "found"
  /\ st_in.override = <<>>
  /\ Node(BootPrefix, TranUsb, "bool_true", TRUE, <<>>) \in ListedNodes
  /\ Node(Slash, TranUsb, "bool_true", FALSE, <<>>) \in ListedNodes
  /\ st_out.ran_lsblk

C17_Preferred(t) == \E p \in PreferLabelPrefixes : StartsWith(Upper(t.label), p)
C17_Sorted(Key(_)) ==
  \A i, j \in DOMAIN st_out.targets :
    i < j =>
      LET a == st_out.targets[i]
          b == st_out.targets[j]
      IN /\ C17_Preferred(b) => C17_Preferred(a)
         /\ (C17_Preferred(a) <=> C17_Preferred(b)) =>
              /\ ~StrLess(Key(a), Key(b))
              /\ Key(a) = Key(b) => ~StrLess(a.mountpoint, b.mountpoint)
C17_LabelText(t) == t.label
C17_LabelUpper(t) == Upper(t.label)

\* C17 as stated: the returned targets are in descending order of (preferred
\* flag, label text, mountpoint text).
C17_SortedByLabelText == StorageCalled => C17_Sorted(C17_LabelText)

\* C17 amended: the returned targets are in descending order of (preferred
\* flag, upper-cased label text, mountpoint text).
C17_SortedByUpperLabel == StorageCalled => C17_Sorted(C17_LabelUpper)

\* C17 witness: media labelled OTHER, SLITLAMP_B and slitlamp_a, listed in
\* that order, were returned as SLITLAMP_B, slitlamp_a, OTHER.
C17_Witness ==
  /\ pc = "found"
  /\ Len(st_in.tree) = 3
  /\ st_in.tree[1].node.label = LabelOther
  /\ Len(st_out.targets) = 3
  /\ st_out.targets[1].label = LabelB
  /\ st_out.targets[2].label = LabelLowerA
  /\ st_out.targets[3].label = LabelOther

\* C18: with no override, the call never raises, every returned target's
\* directory passed the probe (made, marker written and removed), and a
\* candidate whose probe failed at any step is not returned.
C18_OnlyProbedWritableReturned ==
  (StorageCalled /\ st_in.override = <<>>) =>
    /\ ~st_out.raised
    /\ \A d \in TargetDirs :
         /\ \E m \in MediaMounts : d = DirOn(m) /\ st_in.probe[m] = "ok"
         /\ d \in st_out.made
         /\ d \notin st_out.markers
    /\ \A n \in Range(st_out.probed) :
         st_in.probe[n.mountpoint] # "ok" => DirOn(n.mountpoint) \notin TargetDirs

\* C18 witness: of two media probed, the one whose marker write failed was
\* dropped and the other returned.
C18_Witness ==
  /\ pc = "found"
  /\ st_in.override = <<>>
  /\ Len(st_out.probed) = 2
  /\ st_in.probe[MediaA] = "write_fail"
  /\ st_in.probe[MediaB] = "ok"
  /\ TargetDirs = {DirOn(MediaB)}

\* C19: if lsblk is missing, exits with an error or prints unparsable output,
\* find_usb_mount_targets returns the empty sequence without raising and
\* choose_usb_target returns none.
C19_LsblkFailureGivesEmpty ==
  (StorageCalled /\ st_in.override = <<>> /\ st_in.lsblk \in LsblkErrors) =>
    /\ pc \in {"found", "chosen"}
    /\ ~st_out.raised
    /\ st_out.targets = <<>>
    /\ st_out.chosen = <<>>

\* C19 witness: choose_usb_target returned none after lsblk exited with an
\* error although a medium was attached.
C19_Witness ==
  /\ pc = "chosen"
  /\ st_in.override = <<>>
  /\ st_in.lsblk = "CalledProcessError"
  /\ st_in.tree # <<>>
  /\ st_out.chosen = <<>>

\* C20: with the override configured, exactly one target built from the
\* override path is returned; lsblk is not run, nothing is probed, whatever
\* devices are attached and whether or not the path is writable.
C20_OverrideBypassesEnumeration ==
  (StorageCalled /\ st_in.override # <<>>) =>
    /\ ~st_out.raised
    /\ ~st_out.ran_lsblk
    /\ st_out.probed = <<>>
    /\ st_out.made = {}
    /\ st_out.markers = {}
    /\ st_out.targets =
         <<[mountpoint |-> (IF st_in.override = OverrideHome
                            THEN Home \o OverrideAbs
                            ELSE st_in.override) \o Slash \o RecordingsDirName,
            device |-> None,
            label |-> <<>>]>>

\* C20 witness: the override target was returned although lsblk is missing,
\* media are attached and no directory could be made.
C20_Witness ==
  /\ pc = "found"
  /\ st_in.override = OverrideAbs
  /\ st_in.lsblk = "FileNotFoundError"
  /\ Len(st_in.tree) = 2
  /\ st_in.probe[MediaA] = "mkdir_fail"
  /\ Len(st_out.targets) = 1

\* C21: choose_usb_target returns the first element of what
\* find_usb_mount_targets returns for the same inventory, which no other
\* returned target outranks, and none when that result is empty.
C21_ChooseIsFirstOfFind ==
  pc = "chosen" =>
    LET found == FindUsbMountTargets(st_in).targets
    IN /\ found = <<>> => st_out.chosen = <<>>
       /\ found # <<>> =>
            /\ st_out.chosen = <<found[1]>>
            /\ \A k \in DOMAIN found :
                 LET a == found[1]
                     b == found[k]
                 IN /\ C17_Preferred(b) => C17_Preferred(a)
                    /\ (C17_Preferred(a) <=> C17_Preferred(b)) =>
                         ~StrLess(Upper(a.label), Upper(b.label))

\* C21 witness: of three differently labelled media the preferred one with
\* the largest label was chosen, although it was listed last.
C21_Witness ==
  /\ pc = "chosen"
  /\ Len(st_out.targets) = 3
  /\ st_in.tree[3].node.label = LabelB
  /\ st_in.tree[1].node.label = LabelOther
  /\ st_in.tree[2].node.label = LabelA
  /\ st_out.chosen # <<>>
  /\ st_out.chosen[1].label = LabelB

\* ------------------------------------------------ cli.py: record-service
\* RECORDINGS_SUBDIR = "slitlamp_recordings"
RecordingsSubdir ==
  <<115, 108, 105, 116, 108, 97, 109, 112, 95,
    114, 101, 99, 111, 114, 100, 105, 110, 103, 115>>

\* "rec_", ".h264", ".mp4"
RecPrefix == <<114, 101, 99, 95>>
SuffixH264 == <<46, 104, 50, 54, 52>>
SuffixMp4 == <<46, 109, 112, 52>>

\* datetime.now().strftime("%Y%m%d_%H%M%S") for second t of the model's
\* clock, which starts at 2026-11-05 00:00:00
Stamp(t) ==
  <<50, 48, 50, 54, 49, 49, 48, 53, 95, 48, 48, 48, 48>>
    \o <<48 + (t \div 10), 48 + (t % 10)>>

\* self.output_dir / f"rec_{timestamp}.h264"
RecordingPath(dir, t) == JoinPath(dir, RecPrefix \o Stamp(t) \o SuffixH264)

\* Path.with_suffix: the part of the name from its last dot on is replaced
WithSuffix(p, suffix) ==
  LET dots == {i \in 1..Len(p) : p[i] = 46 /\ \A j \in i..Len(p) : p[j] # 47}
  IN IF dots = {} THEN p \o suffix
     ELSE SubSeq(p, 1, (CHOOSE i \in dots : \A j \in dots : j <= i) - 1) \o suffix

\* Mutant of GetCameraCommand: libcamera-vid is preferred.
GetCameraCommandLibcameraFirst(ts) ==
  IF "libcamera-vid" \in ts THEN "libcamera-vid"
  ELSE IF "rpicam-vid" \in ts THEN "rpicam-vid"
  ELSE "RuntimeError"

\* get_camera_command: the tool's name, or the error it raises
GetCameraCommand(ts) ==
  IF "rpicam-vid" \in ts THEN "rpicam-vid"
  ELSE IF "libcamera-vid" \in ts THEN "libcamera-vid"
  ELSE "RuntimeError"

\* Mutant of NoTarget: the missing target is not noticed.
NoTargetIgnored(r) == FALSE

\* `if target is None`
NoTarget(r) == r.chosen = <<>>

\* output_dir = Path(target.mountpoint) / RECORDINGS_SUBDIR
ServiceOutputDir(r) ==
  IF r.chosen = <<>> THEN <<>>
  ELSE JoinPath(r.chosen[1].mountpoint, RecordingsSubdir)

\* what RecordingService.__init__ can raise: mkdir of the output directory,
\* gpiozero missing in LatchingButton.__init__
ConstructOutcomes == {"ok", "OSError", "RuntimeError"}

\* target = choose_usb_target(); return 2 if there is none
CliChoose ==
  /\ pc = "cli_choose"
  /\ st_out' = ChooseUsbTarget(st_in)
  /\ pc' = IF st_out'.raised THEN "raised"
           ELSE IF NoTarget(st_out') THEN "exit_2"
           ELSE "cli_camera"
  /\ UNCHANGED <<st_in, host, hist, ret, svc, btn, env, events, signaled, cnt>>

\* camera_sanity_check(); return 1 if it raises
CliCameraCheck ==
  /\ pc = "cli_camera"
  /\ pc' = IF GetCameraCommand(tools) = "RuntimeError" THEN "exit_1"
           ELSE "cli_construct"
  /\ UNCHANGED <<sto, host, hist, ret, svc, btn, env, events, signaled, cnt>>

\* recorder.run: RecordingService(output_dir=...), then service.run()
CliConstruct ==
  /\ pc = "cli_construct"
  /\ output_dir' = ServiceOutputDir(st_out)
  /\ \E out \in ConstructOutcomes :
       IF out = "ok"
       THEN /\ button_open' = ~fake_mode
            /\ pc' = "install"
       ELSE /\ button_open' = FALSE
            /\ pc' = "raised"
  /\ UNCHANGED <<sto, host, hist, ret, running, proc, current_h264, last_state,
                 fake_mode, env, events, signaled, cnt>>

\* What is attached when record-service is started.
CliInputs ==
  {Presented(OverrideAbs, "ok", <<>>, ProbeAllOk),
   Presented(<<>>, "ok",
             FlatTree(<<Node(MediaA, TranUsb, "bool_true", TRUE, LabelA)>>),
             ProbeAllOk),
   Presented(<<>>, "ok",
             FlatTree(<<Node(MediaA, TranUsb, "bool_true", TRUE, LabelA)>>),
             [ProbeAllOk EXCEPT ![MediaA] = "write_fail"]),
   Presented(<<>>, "ok",
             FlatTree(<<Node(Slash, TranMmc, "bool_false", FALSE, <<>>)>>),
             ProbeAllOk),
   Presented(<<>>, "FileNotFoundError", <<>>, ProbeAllOk)}

\* The process before _cmd_record_service runs: no service object exists.
InitCli ==
  /\ pc = "cli_choose"
  /\ NoSessions
  /\ st_in \in CliInputs
  /\ st_out = NoOutput
  /\ tools \in {Tools, {"ffmpeg"}}
  /\ delete_h264 = FALSE
  /\ ret = "none"
  /\ running = FALSE
  /\ proc = None
  /\ current_h264 = None
  /\ output_dir = <<>>
  /\ last_state = "none"
  /\ fake_mode \in BOOLEAN
  /\ button_open = FALSE
  /\ level \in BOOLEAN
  /\ toggles = 0
  /\ procs = <<>>
  /\ h264 = {}
  /\ mp4 = {}
  /\ now = 1
  /\ events = <<>>
  /\ signaled = FALSE
  /\ edges_pressed = 0
  /\ pressed_calls = 0
  /\ released_calls = 0
  /\ start_calls = 0
  /\ idle_ok = 0
  /\ edge_idle = TRUE
  /\ init_pressed = FALSE
  /\ polls = 0

NextCli ==
  \/ CliChoose
  \/ CliCameraCheck
  \/ CliConstruct
  \/ Next

SpecCli == InitCli /\ [][NextCli]_vars

\* --------------------------------------------- record-service: the claims
\* C22: record-service returns 2 exactly when no storage target is resolved,
\* and then nothing was started: no service object (no output directory, no
\* open button), no signal handler, no capture process; the command is over.
C22_NoTargetExitsTwo ==
  /\ [][(pc = "cli_choose" /\ pc' # pc) =>
          (pc' = "exit_2" <=> FindUsbMountTargets(st_in).targets = <<>>)]_vars
  /\ [](pc = "exit_2" =>
          /\ st_out.chosen = <<>>
          /\ output_dir = <<>>
          /\ ~button_open
          /\ last_state = "none"
          /\ ~running
          /\ ~signaled
          /\ procs = <<>>
          /\ start_calls = 0)
  /\ [][pc = "exit_2" => pc' = "exit_2"]_vars

\* C22 witness: a USB medium is attached but its probe failed, and the
\* command returned 2.
C22_Witness ==
  /\ pc = "exit_2"
  /\ st_in.tree # <<>>
  /\ st_in.probe[MediaA] = "write_fail"
  /\ st_out.probed # <<>>

ParentDir(p) ==
  LET slashes == {i \in 1..Len(p) : p[i] = 47}
  IN SubSeq(p, 1, (CHOOSE i \in slashes : \A j \in slashes : j <= i) - 1)
C23_StorageMounts ==
  {n.mountpoint : n \in ListedNodes}
    \cup (IF st_in.override # <<>> THEN {ExpandUser(st_in.override)} ELSE {})

\* C23: every recording path the service allocates is
\* <mount>/<recordings-subdir>/rec_<stamp>.h264 for a storage mountpoint, its
\* directory is the one the writability probe checked, and the .mp4 is its
\* sibling with the same stem.
C23_RecordingsOneLevelBelowMount ==
  (current_h264 # None /\ output_dir # <<>>) =>
    LET path == RecordingPath(output_dir, current_h264)
        name == RecPrefix \o Stamp(current_h264)
    IN /\ \E m \in C23_StorageMounts :
          \E sub \in {RecordingsDirName, RecordingsSubdir} :
            path = m \o Slash \o sub \o Slash \o name \o SuffixH264
       /\ st_in.override = <<>> =>
            ParentDir(path) \in {TargetDir(n) : n \in Range(st_out.probed)}
       /\ WithSuffix(path, SuffixMp4) =
            ParentDir(path) \o Slash \o name \o SuffixMp4

Stem(p) == WithSuffix(p, <<>>)
\* one press whose capture started and wrote its file, one release whose stop
\* and finalize both succeeded, and run() has returned
C24_OneGoodSession ==
  /\ st_in.override # <<>>
  /\ pc = "done"
  /\ pressed_calls = 1
  /\ released_calls = 1
  /\ start_calls = 1
  /\ Len(procs) = 1
  /\ events = <<"stop", "finalize">>

\* C24: with the storage override set, after one Pressed and one Released
\* edge with capture and conversion succeeding and teardown done, there is
\* exactly one .h264 and exactly one .mp4, with the same stem, in the
\* recordings directory, and no capture process is alive or held.
C24_EndToEndOneRawOneMp4 ==
  C24_OneGoodSession =>
    LET raw == {RecordingPath(output_dir, t) : t \in h264}
        out == {WithSuffix(RecordingPath(output_dir, t), SuffixMp4) : t \in mp4}
    IN /\ h264 = {procs[1].path}
       /\ mp4 = {procs[1].path}
       /\ Cardinality(raw) = 1
       /\ Cardinality(out) = 1
       /\ {Stem(f) : f \in raw} = {Stem(f) : f \in out}
       /\ \A f \in raw \cup out : ParentDir(f) = output_dir
       /\ LiveProcs = {}
       /\ proc = None
       /\ current_h264 = None

\* C24 witness: such a session on the override directory, recorded in the
\* second second of the clock.
C24_Witness ==
  /\ C24_OneGoodSession
  /\ output_dir = JoinPath(JoinPath(OverrideAbs, RecordingsDirName), RecordingsSubdir)
  /\ h264 = {2}
  /\ signaled

\* -------------------------------------------------- camera.convert_to_mp4
\* One call convert_to_mp4(current_h264, delete_h264); here current_h264 is
\* the full path of the raw file and h264, mp4 hold full paths.
Mp4Path == WithSuffix(current_h264, SuffixMp4)

\* Mutant of DeleteSource: the .mp4 is not looked for before the unlink.
DeleteSourceUnchecked == delete_h264

\* `if delete_h264 and mp4_path.exists()`
DeleteSource == delete_h264 /\ Mp4Path \in mp4

\* subprocess.run(["ffmpeg", ...], check=True): the exit status and whether
\* an output file is left; without its input ffmpeg cannot succeed
FfmpegOutcomes ==
  {[exit |-> "nonzero", written |-> w] : w \in BOOLEAN}
    \cup (IF current_h264 \in h264
          THEN {[exit |-> "zero", written |-> w] : w \in BOOLEAN}
          ELSE {})

\* if not shutil.which("ffmpeg"): raise RuntimeError
ConvertEntry ==
  /\ pc = "convert_entry"
  /\ IF "ffmpeg" \in tools
     THEN /\ pc' = "convert_run"
          /\ UNCHANGED events
     ELSE /\ pc' = "convert_raised"
          /\ events' = Append(events, "RuntimeError")
  /\ UNCHANGED <<sto, host, hist, ret, svc, btn, env, signaled, cnt>>

\* the remux; check=True raises CalledProcessError on a non-zero exit
ConvertRun ==
  /\ pc = "convert_run"
  /\ \E out \in FfmpegOutcomes :
       /\ mp4' = IF out.written THEN mp4 \cup {Mp4Path} ELSE mp4 \ {Mp4Path}
       /\ IF out.exit = "zero"
          THEN /\ events' = Append(events, "exit_zero")
               /\ pc' = "convert_sync"
          ELSE /\ events' = events \o <<"exit_nonzero", "CalledProcessError">>
               /\ pc' = "convert_raised"
  /\ UNCHANGED <<sto, host, hist, ret, svc, btn, level, toggles, procs, h264, now,
                 signaled, cnt>>

\* subprocess.run(["sync"], check=False)
ConvertSync ==
  /\ pc = "convert_sync"
  /\ events' = Append(events, "sync")
  /\ pc' = "convert_delete"
  /\ UNCHANGED <<sto, host, hist, ret, svc, btn, env, signaled, cnt>>

\* h264_path.unlink() if wanted; return mp4_path
ConvertDelete ==
  /\ pc = "convert_delete"
  /\ h264' = IF DeleteSource THEN h264 \ {current_h264} ELSE h264
  /\ pc' = "convert_return"
  /\ UNCHANGED <<sto, host, hist, ret, svc, btn, level, toggles, procs, mp4, now,
                 events, signaled, cnt>>

InitConvert ==
  /\ pc = "convert_entry"
  /\ NoSessions
  /\ tools \in SUBSET Tools
  /\ delete_h264 \in BOOLEAN
  /\ StorageIdle
  /\ ret = "none"
  /\ running = FALSE
  /\ proc = None
  /\ output_dir \in {OverrideAbs, JoinPath(MediaA, RecordingsDirName)}
  /\ now \in 1..MaxClock
  /\ current_h264 = RecordingPath(output_dir, now)
  /\ h264 \in SUBSET {current_h264}
  /\ mp4 \in SUBSET {Mp4Path}
  /\ last_state = "none"
  /\ fake_mode = FALSE
  /\ button_open = FALSE
  /\ level = FALSE
  /\ toggles = 0
  /\ procs = <<>>
  /\ events = <<>>
  /\ signaled = FALSE
  /\ edges_pressed = 0
  /\ pressed_calls = 0
  /\ released_calls = 0
  /\ start_calls = 0
  /\ idle_ok = 0
  /\ edge_idle = TRUE
  /\ init_pressed = FALSE
  /\ polls = 0

NextConvert ==
  \/ ConvertEntry
  \/ ConvertRun
  \/ ConvertSync
  \/ ConvertDelete

SpecConvert == InitConvert /\ [][NextConvert]_vars

\* C25: convert_to_mp4 raises when ffmpeg is not resolvable or exits
\* non-zero; the raw file is removed only by a call that was asked to delete,
\* whose conversion succeeded and whose .mp4 exists, so every failing call
\* leaves the raw file as it was.
C25_FailedFinalizeKeepsSource ==
  /\ []((pc \in {"convert_return", "convert_raised"}
          /\ ("ffmpeg" \notin tools \/ "exit_nonzero" \in Range(events)))
        => pc = "convert_raised")
  /\ [](pc = "convert_return" =>
          /\ "exit_zero" \in Range(events)
          /\ current_h264 \notin h264 => (delete_h264 /\ Mp4Path \in mp4))
  /\ [][h264' # h264 =>
          /\ delete_h264
          /\ "exit_zero" \in Range(events)
          /\ Mp4Path \in mp4
          /\ pc' = "convert_return"]_vars
  /\ [][(pc' = "convert_raised" \/ pc = "convert_raised") => h264' = h264]_vars

\* C25 witness: a call asked to delete failed with a non-zero exit that left
\* a partial .mp4; the raw file is still there.
C25_Witness ==
  /\ pc = "convert_raised"
  /\ delete_h264
  /\ events = <<"exit_nonzero", "CalledProcessError">>
  /\ Mp4Path \in mp4
  /\ current_h264 \in h264

\* ------------------------------------------------ the run loop: more claims
ReleasedInFlight == pc \in {"released_stop", "released_convert", "released_clear"}

\* C26: a shutdown signal only clears the run flag: the step that delivers
\* it moves neither the control position nor the session nor any file or
\* process; a release handler that is under way goes on through stop,
\* finalize and the clearing of the session whatever the flag says; and the
\* loop is left only at its own test of the flag, with the session cleared.
C26_CooperativeCancellation ==
  /\ [][((running /\ ~running') \/ signaled' # signaled) =>
          /\ ~running'
          /\ UNCHANGED <<pc, ret, proc, current_h264, output_dir, btn, env,
                         events, cnt>>]_vars
  /\ [][(ReleasedInFlight /\ pc' # pc) =>
          /\ pc = "released_stop" => pc' = "released_convert"
          /\ pc = "released_convert" => pc' = "released_clear"
          /\ pc = "released_clear" =>
               (pc' = ret /\ proc' = None /\ current_h264' = None)]_vars
  /\ [][(pc' = "teardown" /\ pc # "teardown") =>
          (pc = "loop_check" /\ ~running)]_vars
  /\ []((pc \in {"sleep", "loop_check", "teardown"} /\ ReleasedDone) =>
          (proc = None /\ current_h264 = None))

\* C26 witness: the flag was cleared inside the tick whose release handler
\* has stopped and finalized the session and is about to clear it.
C26_Witness ==
  /\ signaled
  /\ ~running
  /\ pc = "released_clear"
  /\ ret = "sleep"
  /\ events = <<"stop", "finalize">>
  /\ current_h264 # None

\* C27: an edge is handled inside the tick that detected it: the handler is
\* entered in the very step that samples the edge, the level is sampled (and
\* the baseline moved) only at the poll and the startup check, never while a
\* handler is under way, and the Pressed and Released handlers alternate,
\* Pressed first.
C27_EdgesHandledInOrder ==
  /\ [][(pc = "poll" /\ pc' # pc) =>
          /\ (last_state = "off" /\ last_state' = "on") => pc' = "pressed_guard"
          /\ (last_state = "on" /\ last_state' = "off") => pc' = "released_guard"
          /\ pc' \in HandlerPcs => ret' = "sleep"]_vars
  /\ [][(last_state' # last_state \/ polls' # polls) =>
          pc \in {"poll", "check_initial"}]_vars
  /\ [](pc \in HandlerPcs => ret \in {"set_running", "sleep", "close"})
  /\ [](pressed_calls - released_calls \in {0, 1})

\* C27 witness: four edges were handled, two presses and two releases.
C27_Witness ==
  /\ pressed_calls = 2
  /\ released_calls = 2
  /\ pc = "sleep"
  /\ ~signaled

\* ------------------------------------------------- LatchingButton.poll alone
\* A caller that loops on poll() without calling check_initial_state first.
InitPoll ==
  /\ pc = "poll"
  /\ NoSessions
  /\ HostDefault
  /\ StorageIdle
  /\ ret = "none"
  /\ running = TRUE
  /\ proc = None
  /\ current_h264 = None
  /\ output_dir \in Dirs
  /\ last_state = "none"
  /\ fake_mode \in BOOLEAN
  /\ button_open = ~fake_mode
  /\ level \in BOOLEAN
  /\ toggles = 0
  /\ procs = <<>>
  /\ h264 = {}
  /\ mp4 = {}
  /\ now = 1
  /\ events = <<>>
  /\ signaled = FALSE
  /\ edges_pressed = 0
  /\ pressed_calls = 0
  /\ released_calls = 0
  /\ start_calls = 0
  /\ idle_ok = 0
  /\ edge_idle = TRUE
  /\ init_pressed = FALSE
  /\ polls = 0

NextPoll ==
  \/ Poll
  \/ Sleep
  \/ LoopCheck
  \/ Handler
  \/ Environment

SpecPoll == InitPoll /\ [][NextPoll]_vars

\* C28: a poll compares the level it reads with the recorded one and nothing
\* else: it calls the Pressed handler exactly on off->on, the Released
\* handler exactly on on->off, no handler when the level is unchanged; with
\* no recorded level it records the one it read and calls nothing.
C28_PollIsPureComparison ==
  [][(pc = "poll" /\ pc' # pc) =>
       LET cur == Lvl(IsPressed) IN
         /\ last_state' = cur
         /\ (pressed_calls' = pressed_calls + 1) <=>
              (last_state = "off" /\ cur = "on")
         /\ (released_calls' = released_calls + 1) <=>
              (last_state = "on" /\ cur = "off")
         /\ (pc' = "pressed_guard") <=> (last_state = "off" /\ cur = "on")
         /\ (pc' = "released_guard") <=> (last_state = "on" /\ cur = "off")
         /\ (last_state \in {"none", cur}) =>
              (pc' = "sleep" /\ UNCHANGED <<pressed_calls, released_calls, events>>)
     ]_vars

\* C28 witness: the first poll read ON with no level recorded; it recorded
\* ON and called no handler.
C28_Witness ==
  /\ pc = "sleep"
  /\ polls = 1
  /\ last_state = "on"
  /\ pressed_calls = 0
  /\ released_calls = 0

\* C29: the output directory is assigned once, when the service is
\* constructed from the target chosen at startup, and never again, whatever
\* edges, failures and signals follow; the target is resolved by the one
\* call at startup and by no other step.
C29_OutputDirReadOnly ==
  /\ [][pc # "cli_construct" => output_dir' = output_dir]_vars
  /\ [][pc # "cli_choose" => UNCHANGED <<st_in, st_out>>]_vars
  /\ [](output_dir # <<>> =>
          /\ st_out.chosen # <<>>
          /\ output_dir = st_out.chosen[1].mountpoint \o Slash \o RecordingsSubdir)

\* C29 witness: run() has returned after a signal and after two sessions, the
\* last of which ended in an error; the directory is the one set at start.
C29_Witness ==
  /\ pc = "done"
  /\ signaled
  /\ start_calls = 2
  /\ Failed
  /\ output_dir = JoinPath(JoinPath(MediaA, RecordingsDirName), RecordingsSubdir)


\* ------------------------------------------------- start_recording, alone
\* One call of start_recording(output_path), step by step, on a host whose
\* installed tools may change between the steps.  The launched process is
\* recorded with the command it runs.

\* output_path.parent.mkdir(parents=True, exist_ok=True)
StartMkdir ==
  /\ pc = "start_mkdir"
  /\ \E out \in {"ok", "OSError"} :
       IF out = "ok"
       THEN /\ events' = Append(events, "mkdir")
            /\ pc' = "start_resolve"
       ELSE /\ events' = Append(events, out)
            /\ pc' = "raised"
  /\ UNCHANGED <<sto, host, hist, ret, svc, btn, env, signaled, cnt>>

\* cmd = get_camera_command()
StartResolve ==
  /\ pc = "start_resolve"
  /\ events' = Append(events, GetCameraCommand(tools))
  /\ pc' = IF GetCameraCommand(tools) = "RuntimeError"
           THEN "raised" ELSE "start_popen"
  /\ UNCHANGED <<sto, host, hist, ret, svc, btn, env, signaled, cnt>>

\* proc = subprocess.Popen([cmd, ...]); return proc.  Popen looks the name up
\* again: a tool that is gone by now makes it raise FileNotFoundError.
StartPopen ==
  /\ pc = "start_popen"
  /\ LET cmd == events[Len(events)] IN
     \E out \in {"ok", "OSError"} :
       /\ out = "ok" => cmd \in tools
       /\ IF out = "ok"
          THEN /\ procs' = Append(procs, [path |-> current_h264,
                                          alive |-> TRUE, cmd |-> cmd])
               /\ events' = Append(events, "start")
               /\ pc' = "done"
          ELSE /\ events' = Append(events, out)
               /\ pc' = "raised"
               /\ UNCHANGED procs
  /\ UNCHANGED <<sto, host, hist, ret, svc, btn, level, toggles, h264, mp4, now,
                 signaled, cnt>>

\* shutil.which reads the host at each call: a tool is installed or removed
\* while the call is under way.
HostChange ==
  /\ pc \in {"start_mkdir", "start_resolve", "start_popen"}
  /\ \E t \in Tools :
       tools' = IF t \in tools THEN tools \ {t} ELSE tools \cup {t}
  /\ UNCHANGED <<pc, ret, svc, btn, env, events, signaled, cnt, sto,
                 delete_h264, hist>>

InitStart ==
  /\ pc = "start_mkdir"
  /\ NoSessions
  /\ tools \in SUBSET Tools
  /\ delete_h264 = FALSE
  /\ StorageIdle
  /\ ret = "none"
  /\ running = TRUE
  /\ proc = None
  /\ output_dir \in {OverrideAbs, JoinPath(MediaA, RecordingsDirName)}
  /\ now \in 1..MaxClock
  /\ current_h264 = RecordingPath(output_dir, now)
  /\ h264 = {}
  /\ mp4 = {}
  /\ last_state = "on"
  /\ fake_mode = FALSE
  /\ button_open = TRUE
  /\ level = TRUE
  /\ toggles = 0
  /\ procs = <<>>
  /\ events = <<>>
  /\ signaled = FALSE
  /\ edges_pressed = 0
  /\ pressed_calls = 0
  /\ released_calls = 0
  /\ start_calls = 0
  /\ idle_ok = 0
  /\ edge_idle = TRUE
  /\ init_pressed = FALSE
  /\ polls = 0

NextStart ==
  \/ StartMkdir
  \/ StartResolve
  \/ StartPopen
  \/ HostChange

SpecStart == InitStart /\ [][NextStart]_vars

\* C30: start_recording picks rpicam-vid whenever it is resolvable at the
\* time of the lookup, libcamera-vid only when rpicam-vid is not, and raises
\* without launching anything when neither is; a process is launched only by
\* the launch step, running the command that was picked.
C30_StartResolvesByPreference ==
  /\ [][pc = "start_resolve" /\ pc' # pc =>
          IF "rpicam-vid" \in tools
          THEN pc' = "start_popen" /\ events' = Append(events, "rpicam-vid")
          ELSE IF "libcamera-vid" \in tools
          THEN pc' = "start_popen" /\ events' = Append(events, "libcamera-vid")
          ELSE /\ pc' = "raised"
               /\ events' = Append(events, "RuntimeError")
               /\ procs' = procs]_vars
  /\ [][procs' # procs =>
          /\ pc = "start_popen"
          /\ events[Len(events)] \in {"rpicam-vid", "libcamera-vid"}
          /\ procs' = Append(procs, [path |-> current_h264, alive |-> TRUE,
                                     cmd |-> events[Len(events)]])]_vars
  /\ [](pc = "raised" => procs = <<>>)

\* C30 witness: the call returned a process running libcamera-vid, the
\* second preference.
C30_Witness ==
  /\ pc = "done"
  /\ Len(procs) = 1
  /\ procs[1].cmd = "libcamera-vid"
  /\ events = <<"mkdir", "libcamera-vid", "start">>


\* -------------------------------------------------- sessions, one by one
\* The session p has ended: a later one was started, or run() has returned.
SessionOver(p) == p < Len(procs) \/ pc = "done"

\* C31: every started session whose raw file exists has had convert_to_mp4
\* called on that file by the time the next session is started or run()
\* returns, also when its capture process exited on its own.
C31_EverySessionFinalized ==
  \A p \in Pids :
    (SessionOver(p) /\ procs[p].path \in h264) => finalizes[p] >= 1


\* The raw file and the converted file that session p writes.
SessionRaw(p) == RecordingPath(output_dir, procs[p].path)
SessionMp4(p) == WithSuffix(SessionRaw(p), SuffixMp4)

\* C32: a session started after an earlier session was stopped never has
\* the earlier session's .h264 or .mp4 as its own output path, whatever the
\* clock read at the two starts.
C32_SessionPathsDistinct ==
  \A p, q \in Pids :
    (p < q /\ stops[p] >= 1) =>
      /\ SessionRaw(q) # SessionRaw(p)
      /\ SessionMp4(q) # SessionMp4(p)


\* C33: stop_recording is called at most once on a session's process and
\* convert_to_mp4 at most once on a session's raw file, whatever Released
\* edges, signals (repeated, and during teardown) and teardown follow.
C33_StopAndFinalizeAtMostOnce ==
  \A p \in Pids : stops[p] <= 1 /\ finalizes[p] <= 1

\* C33 witness: run() has returned after a signal; the first session was
\* stopped and finalized by its Released edge, the second by the teardown.
C33_Witness ==
  /\ pc = "done"
  /\ signaled
  /\ ret = "close"
  /\ stops = <<1, 1>>
  /\ finalizes = <<1, 1>>


\* C34: whenever no edge handler is executing, the stored process handle is
\* none exactly when the stored current path is none.
C34_HandleAndPathTogether ==
  pc \notin HandlerPcs => (proc = None <=> current_h264 = None)

\* C34 witness: between two polls, after a Released edge whose stop failed
\* was handled to the end: handle and path are both none.
C34_Witness ==
  /\ pc = "sleep"
  /\ ReleasedDone
  /\ Failed
  /\ proc = None
  /\ current_h264 = None
  /\ Len(procs) = 1


\* The main loop is between two polls: no handler is executing and the
\* teardown has not begun.
BetweenPolls == pc \in {"sleep", "loop_check", "poll"}

\* C35: between poll ticks, whenever a capture process of the service is
\* alive the last sampled button level is pressed; so after a handled
\* Released edge no capture process is alive until the next Pressed edge.
C35_LiveOnlyWhilePressed ==
  (BetweenPolls /\ LiveProcs # {}) => last_state = "on"


\* C36: with the fake-hardware toggle set, the button never reads pressed,
\* no edge handler is ever invoked, the service holds no session and starts
\* no capture process, and run() leaves its loop only after a shutdown
\* signal.
C36_FakeModeStaysIdle ==
  fake_mode =>
    /\ ~IsPressed
    /\ last_state # "on"
    /\ edges_pressed = 0
    /\ pressed_calls = 0
    /\ released_calls = 0
    /\ start_calls = 0
    /\ procs = <<>>
    /\ proc = None
    /\ current_h264 = None
    /\ pc \in {"teardown", "close", "done"} => signaled

\* C36 witness: in fake mode the loop polled at least twice while the switch
\* was flipped to ON, and run() returned after a signal.
C36_Witness ==
  /\ fake_mode
  /\ level
  /\ toggles = MaxToggles
  /\ polls = 2
  /\ signaled
  /\ pc = "done"

=============================================================================
